---- MODULE Spec2Model ----
(***************************************************************************)
(* The response cache of app.py: the module-level dict `cache`, the        *)
(* cache_response wrapper around get_video_info, and the janitor task      *)
(* cleanup_old_cache.  All cache accesses run on one asyncio event loop,   *)
(* so the code between two awaits is one atomic step:                      *)
(*   wrapper  lines 78-86  lookup (hit return / stale delete)              *)
(*            line  88     await func(...)   suspension point              *)
(*            lines 91-93  conditional store and return                    *)
(*   janitor  lines 43-58  one sweep, then await asyncio.sleep(300)        *)
(* Time is the value of datetime.now() in seconds, taken to be             *)
(* non-decreasing.                                                         *)
(***************************************************************************)
EXTENDS Integers, Sequences, FiniteSets, TLC

\* ---- program constants
MAX_CACHE_ITEMS == 100
EXPIRE_TIME == 300
JANITOR_MAX_AGE == 300
JANITOR_SLEEP == 300

\* ---- bounds of the model
NumProcs == 2
NumUrls == 2
MaxCalls == 2
MaxTicks == 1

Procs == 1..NumProcs
Urls == 1..NumUrls
ClockSteps == {300, 301}
\* sizes of the cache the model starts from (entries stored by earlier requests)
InitFill == {0, MAX_CACHE_ITEMS - 1, MAX_CACHE_ITEMS}

NoEntry == [entry |-> <<>>, age |-> -1]
NoSweep == [expired |-> 0, trimmed |-> 0]
NoArgs == 0
NoInfo == [meta |-> <<>>, first |-> "none", second |-> "none", resp |-> <<>>]

VARIABLES
    cache,      \* the dict: sequence of items <<key, value, timestamp>> in insertion order
    now,        \* datetime.now()
    ticks,      \* number of clock advances so far
    janPc,      \* janitor task: "unstarted", "running" (about to sweep), "sleeping"
    janWake,    \* earliest time asyncio.sleep(300) returns
    raised,     \* history: whether the janitor's last sweep raised an exception
    sweep,      \* history: the last sweep [expired, trimmed] (numbers of keys deleted)
    pc,         \* per request task: "idle", "computing" (suspended at line 88), "done"
    args,       \* per request task: the url of the call
    found,      \* history: what the call's lookup found, [entry, age] or NoEntry
    invoked,    \* how often the call invoked func
    effect,     \* history: what the call's own steps changed in the cache
    doneAt,     \* history: the time the call returned or raised, or -1
    stored,     \* history: whether the call stored its response
    ret,        \* what the call returned or raised
    ncalls,     \* calls started so far
    nurls,      \* urls requested so far: they are numbered in the order of first request
    nextVal,    \* identity of the next response object func creates
    dlPc,       \* the /download request: "idle", "open", "pull", "yield", "cancelled"
                \* (the client has gone, the generator is not yet closed), "done"
    gzip,       \* whether the client accepts gzip (GZipMiddleware holds the headers back)
    source,     \* the chunks upstream delivers, in order
    upStatus,   \* the status upstream answered with ("200", "404"), or "none"
    upOpen,     \* whether the upstream connection (client and response stream) is open
    pulled,     \* number of chunks requested from upstream so far
    held,       \* the chunk received from upstream and not yet handed on, or 0
    sink,       \* the chunks handed to the downstream sink so far
    clStatus,   \* the status line the client has received, or 0
    aborted,    \* whether the connection to the client was torn down mid-response
    clientOpen, \* whether the client is still connected
    vinfo       \* the last /video-info computation: what the extractor gave and the answer

vars == <<cache, now, ticks, janPc, janWake, raised, sweep, pc, args, found, invoked,
          effect, doneAt, stored, ret, ncalls, nurls, nextVal,
          dlPc, gzip, source, upStatus, upOpen, pulled, held, sink, clStatus, aborted,
          clientOpen, vinfo>>

\* ---- the dict
Range(c) == {c[i] : i \in 1..Len(c)}
Keys(c) == {c[i][1] : i \in 1..Len(c)}
Has(c, k) == \E i \in 1..Len(c) : c[i][1] = k
IndexOf(c, k) == CHOOSE i \in 1..Len(c) : c[i][1] = k
Get(c, k) == LET i == IndexOf(c, k) IN <<c[i][2], c[i][3]>>
Del_Forgets(c, k) == c
Del(c, k) == SelectSeq(c, LAMBDA it : it[1] # k)
DelAll(c, ks) == SelectSeq(c, LAMBDA it : it[1] \notin ks)
SetItem_Evicts(c, k, v, t) ==
    IF Has(c, k) THEN [c EXCEPT ![IndexOf(c, k)] = <<k, v, t>>]
    ELSE Append(IF c = <<>> THEN c ELSE Tail(c), <<k, v, t>>)
SetItem_Appends(c, k, v, t) == Append(c, <<k, v, t>>)
SetItem_Epoch(c, k, v, t) ==
    IF Has(c, k) THEN [c EXCEPT ![IndexOf(c, k)] = <<k, v, 0>>]
    ELSE Append(c, <<k, v, 0>>)
SetItem(c, k, v, t) ==
    IF Has(c, k) THEN [c EXCEPT ![IndexOf(c, k)] = <<k, v, t>>]
    ELSE Append(c, <<k, v, t>>)

cache_key(u) == <<"get_video_info", u>>

\* what a step changed in the dict: the items before the first place where the two
\* dicts differ and the items after the last one are the same in both, and keys are
\* unique, so the change lies between them
FirstDiff(c, d) ==
    LET m == IF Len(c) < Len(d) THEN Len(c) ELSE Len(d)
    IN  CHOOSE i \in 1..(m + 1) :
            /\ (i = m + 1 \/ c[i] # d[i])
            /\ \A j \in 1..(i - 1) : c[j] = d[j]
SameTail(c, d, f) ==
    LET m == (IF Len(c) < Len(d) THEN Len(c) ELSE Len(d)) - f + 1
    IN  CHOOSE n \in 0..m :
            /\ (n = m \/ c[Len(c) - n] # d[Len(d) - n])
            /\ \A j \in 0..(n - 1) : c[Len(c) - j] = d[Len(d) - j]
Diff(c, d) ==
    IF c = d THEN {} ELSE
    LET f == FirstDiff(c, d)
        g == SameTail(c, d, f)
        old == {c[i] : i \in f..(Len(c) - g)}
        upd == {d[i] : i \in f..(Len(d) - g)}
        gone == old \ upd
        new == upd \ old
    IN  {<<"removed", x[1]>> : x \in {g1 \in gone : \A y \in new : y[1] # g1[1]}}
        \cup {<<"changed", x[1]>> : x \in {g1 \in gone : \E y \in new : y[1] = g1[1]}}
        \cup {<<"added", y[1]>> : y \in {z \in new : \A g1 \in gone : g1[1] # z[1]}}

\* ---- cleanup_old_cache
IsExpiredForJanitor_Hours(age) == age > JANITOR_MAX_AGE * 60
IsExpiredForJanitor(age) == age > JANITOR_MAX_AGE
expired_keys(c, t) ==
    {c[i][1] : i \in {j \in 1..Len(c) : IsExpiredForJanitor(t - c[j][3])}}

\* sorted(cache.keys(), key=lambda k: cache[k][1]): a stable sort, ties stay in dict
\* order; Rank is the place of the i-th item of the dict in the sorted list
Rank(c, i) ==
    1 + Cardinality({j \in 1..Len(c) :
                        c[j][3] < c[i][3] \/ (c[j][3] = c[i][3] /\ j < i)})
sorted_Descending(c) ==
    [r \in 1..Len(c) |->
        c[CHOOSE i \in 1..Len(c) :
            r = 1 + Cardinality({j \in 1..Len(c) :
                                    c[j][3] > c[i][3] \/ (c[j][3] = c[i][3] /\ j < i)})]]
sorted(c) == [r \in 1..Len(c) |-> c[CHOOSE i \in 1..Len(c) : Rank(c, i) = r]]
oldest_keys(c) ==
    LET s == sorted(c)
    IN  {s[i][1] : i \in 1..(Len(c) - MAX_CACHE_ITEMS)}

NeedsTrim(c) == Len(c) > MAX_CACHE_ITEMS
AfterExpiry(c, t) == DelAll(c, expired_keys(c, t))
SweepCache(c, t) ==
    LET c1 == AfterExpiry(c, t)
    IN  IF NeedsTrim(c1) THEN DelAll(c1, oldest_keys(c1)) ELSE c1

\* ---- cache_response.wrapper
IsFresh_Inclusive(age) == age <= EXPIRE_TIME
IsFresh_Reversed(age) == age > EXPIRE_TIME
IsFresh(age) == age < EXPIRE_TIME
CanStore_OffByOne(c) == Len(c) <= MAX_CACHE_ITEMS
CanStore_Always(c) == TRUE
CanStore(c) == Len(c) < MAX_CACHE_ITEMS

\* ---- get_video_info: the extractor answers "ok", "empty" (no info) or "raise";
\* a response is <<url, identity>>
HTTPException(status) == [kind |-> "error", status |-> status, val |-> <<>>]
get_video_info_body(u, info, id) ==
    IF info = "raise" THEN [kind |-> "error", status |-> 0, val |-> <<>>]
    ELSE IF info = "empty" THEN HTTPException(400)
    ELSE [kind |-> "computed", status |-> 200, val |-> <<u, id>>]
get_video_info_Swallow(u, info, id) ==
    LET r == get_video_info_body(u, info, id)
    IN  IF r.kind = "error" THEN [kind |-> "computed", status |-> 500, val |-> <<0, id>>]
        ELSE r
get_video_info(u, info, id) ==
    LET r == get_video_info_body(u, info, id)
    IN  IF r.kind = "error" THEN HTTPException(500) ELSE r

NoRet == [kind |-> "none", status |-> 0, val |-> <<>>]

\* ---- initial states: an empty cache before startup, or the cache at the time the
\* janitor's second sweep is due, filled by one request a second over the last n
\* seconds: the first MAX_CACHE_ITEMS - 1 of them for other urls, the next one for url 1
FillUrl(i) == IF i < MAX_CACHE_ITEMS THEN NumUrls + i ELSE 1
Prefill(n) ==
    [i \in 1..n |-> <<cache_key(FillUrl(i)), <<FillUrl(i), i>>, JANITOR_SLEEP - n + i>>]

Idle ==
    /\ pc = [p \in Procs |-> "idle"]
    /\ args = [p \in Procs |-> NoArgs]
    /\ found = [p \in Procs |-> NoEntry]
    /\ invoked = [p \in Procs |-> 0]
    /\ effect = [p \in Procs |-> {}]
    /\ doneAt = [p \in Procs |-> -1]
    /\ stored = [p \in Procs |-> FALSE]
    /\ ret = [p \in Procs |-> NoRet]
    /\ ncalls = 0
    /\ dlPc = "idle"
    /\ gzip = FALSE
    /\ source = <<>>
    /\ upStatus = "none"
    /\ upOpen = FALSE
    /\ pulled = 0
    /\ held = 0
    /\ sink = <<>>
    /\ clStatus = 0
    /\ aborted = FALSE
    /\ clientOpen = TRUE
    /\ vinfo = NoInfo

Init ==
    /\ \E n \in InitFill :
        /\ cache = Prefill(n)
        /\ nextVal = n + 1
        /\ now = IF n = 0 THEN 0 ELSE JANITOR_SLEEP
        /\ janPc = IF n = 0 THEN "unstarted" ELSE "sleeping"
        /\ janWake = IF n = 0 THEN 0 ELSE JANITOR_SLEEP
        /\ nurls = IF n = MAX_CACHE_ITEMS THEN 1 ELSE 0
    /\ ticks = 0
    /\ raised = FALSE
    /\ sweep = NoSweep
    /\ Idle

\* ---- actions
procVars == <<pc, args, found, invoked, effect, doneAt, stored, ret, ncalls, nurls>>
janVars == <<janPc, janWake, raised, sweep>>
\* what the steps of the cache leave alone, and what the steps of a download leave alone
relVars == <<dlPc, gzip, source, upStatus, upOpen, pulled, held, sink, clStatus, aborted,
            clientOpen, vinfo>>
cacheVars == <<cache, now, ticks, janVars, procVars, nextVal, vinfo>>

Tick(d) ==
    /\ ticks < MaxTicks
    /\ now' = now + d
    /\ ticks' = ticks + 1
    /\ UNCHANGED <<cache, janVars, procVars, nextVal, relVars>>

startup_event ==
    /\ janPc = "unstarted"
    /\ janPc' = "running"
    /\ UNCHANGED <<cache, now, ticks, janWake, raised, sweep, procVars, nextVal, relVars>>

\* lines 43-62: one sweep, then the sleep
cleanup_old_cache_Once ==
    /\ janPc = "running"
    /\ cache' = SweepCache(cache, now)
    /\ sweep' = [expired |-> Len(cache) - Len(AfterExpiry(cache, now)),
                 trimmed |-> Len(AfterExpiry(cache, now)) - Len(cache')]
    /\ raised' = FALSE
    /\ janPc' = "sleeping"
    /\ janWake' = now + JANITOR_SLEEP
    /\ UNCHANGED <<now, ticks, procVars, nextVal, relVars>>
cleanup_old_cache ==
    /\ \/ janPc = "running"
       \/ janPc = "sleeping" /\ now >= janWake
    /\ cache' = SweepCache(cache, now)
    /\ sweep' = [expired |-> Len(cache) - Len(AfterExpiry(cache, now)),
                 trimmed |-> Len(AfterExpiry(cache, now)) - Len(cache')]
    /\ raised' = FALSE
    /\ janPc' = "sleeping"
    /\ janWake' = now + JANITOR_SLEEP
    /\ UNCHANGED <<now, ticks, procVars, nextVal, relVars>>

\* lines 43-47, 60-62: the sweep raises while it lists the expired keys (the deletes of
\* lines 48-49 are of keys just listed and do not raise); the handler of lines 60-61
\* discards the exception and the loop goes on to the sleep
cleanup_raises_Dies ==
    /\ \/ janPc = "running"
       \/ janPc = "sleeping" /\ now >= janWake
    /\ raised' = TRUE
    /\ janPc' = "dead"
    /\ UNCHANGED <<cache, now, ticks, janWake, sweep, procVars, nextVal, relVars>>
cleanup_raises ==
    /\ \/ janPc = "running"
       \/ janPc = "sleeping" /\ now >= janWake
    /\ raised' = TRUE
    /\ janPc' = "sleeping"
    /\ janWake' = now + JANITOR_SLEEP
    /\ UNCHANGED <<cache, now, ticks, sweep, procVars, nextVal, relVars>>

\* lines 78-88: the lookup, up to the return of a hit or the suspension in func.
\* The tasks run the same code and only equality of urls matters: tasks and urls are
\* numbered in the order of their first request.
WrapperLookup(p, u) ==
    LET k == cache_key(u)
        has == Has(cache, k)
        e == Get(cache, k)
        hit == has /\ IsFresh(now - e[2])
    IN  /\ pc[p] \in {"idle", "done"}
        /\ IF p = 1 THEN TRUE ELSE pc[p - 1] # "idle"
        /\ janPc # "unstarted"
        /\ ncalls < MaxCalls
        /\ ncalls' = ncalls + 1
        /\ u <= nurls + 1
        /\ nurls' = IF u > nurls THEN u ELSE nurls
        /\ args' = [args EXCEPT ![p] = u]
        /\ found' = [found EXCEPT ![p] =
                       IF has THEN [entry |-> e, age |-> now - e[2]] ELSE NoEntry]
        /\ stored' = [stored EXCEPT ![p] = FALSE]
        /\ IF hit
           THEN /\ cache' = cache
                /\ pc' = [pc EXCEPT ![p] = "done"]
                /\ doneAt' = [doneAt EXCEPT ![p] = now]
                /\ ret' = [ret EXCEPT ![p] =
                             [kind |-> "hit", status |-> 200, val |-> e[1]]]
                /\ invoked' = [invoked EXCEPT ![p] = 0]
                /\ effect' = [effect EXCEPT ![p] = {}]
           ELSE /\ cache' = IF has THEN Del(cache, k) ELSE cache
                /\ pc' = [pc EXCEPT ![p] = "computing"]
                /\ doneAt' = [doneAt EXCEPT ![p] = -1]
                /\ ret' = [ret EXCEPT ![p] = NoRet]
                /\ invoked' = [invoked EXCEPT ![p] = 1]
                /\ effect' = [effect EXCEPT ![p] = Diff(cache, cache')]
        /\ UNCHANGED <<now, ticks, janVars, nextVal, relVars>>

WrapperResume_CachesFailure(p, info) ==
    LET r == get_video_info(args[p], info, nextVal)
        k == cache_key(args[p])
    IN  /\ pc[p] = "computing"
        /\ nextVal' = IF r.kind = "error" THEN nextVal ELSE nextVal + 1
        /\ cache' = IF CanStore(cache) THEN SetItem(cache, k, r.val, now) ELSE cache
        /\ stored' = [stored EXCEPT ![p] = cache' # cache]
        /\ doneAt' = [doneAt EXCEPT ![p] = now]
        /\ effect' = [effect EXCEPT ![p] = @ \cup Diff(cache, cache')]
        /\ ret' = [ret EXCEPT ![p] = r]
        /\ pc' = [pc EXCEPT ![p] = "done"]
        /\ UNCHANGED <<now, ticks, janVars, args, found, invoked, ncalls, nurls, relVars>>

WrapperResume_ReturnsCached(p, info) ==
    LET r == get_video_info(args[p], info, nextVal)
        k == cache_key(args[p])
    IN  /\ pc[p] = "computing"
        /\ IF r.kind = "error" \/ Has(cache, k)
           THEN UNCHANGED <<cache, nextVal>>
           ELSE /\ nextVal' = nextVal + 1
                /\ cache' = IF CanStore(cache) THEN SetItem(cache, k, r.val, now)
                            ELSE cache
        /\ stored' = [stored EXCEPT ![p] = cache' # cache]
        /\ doneAt' = [doneAt EXCEPT ![p] = now]
        /\ effect' = [effect EXCEPT ![p] = @ \cup Diff(cache, cache')]
        /\ ret' = [ret EXCEPT ![p] =
                     IF r.kind # "error" /\ Has(cache, k)
                     THEN [kind |-> "computed", status |-> 200, val |-> Get(cache, k)[1]]
                     ELSE r]
        /\ pc' = [pc EXCEPT ![p] = "done"]
        /\ UNCHANGED <<now, ticks, janVars, args, found, invoked, ncalls, nurls, relVars>>

\* lines 88-93: func returns a response, which is stored if there is room, or raises,
\* and the exception leaves the wrapper
WrapperResume(p, info) ==
    LET r == get_video_info(args[p], info, nextVal)
        k == cache_key(args[p])
    IN  /\ pc[p] = "computing"
        /\ IF r.kind = "error"
           THEN UNCHANGED <<cache, nextVal>>
           ELSE /\ nextVal' = nextVal + 1
                /\ cache' = IF CanStore(cache) THEN SetItem(cache, k, r.val, now)
                            ELSE cache
        /\ stored' = [stored EXCEPT ![p] = cache' # cache]
        /\ doneAt' = [doneAt EXCEPT ![p] = now]
        /\ effect' = [effect EXCEPT ![p] = @ \cup Diff(cache, cache')]
        /\ ret' = [ret EXCEPT ![p] = r]
        /\ pc' = [pc EXCEPT ![p] = "done"]
        /\ UNCHANGED <<now, ticks, janVars, args, found, invoked, ncalls, nurls, relVars>>

Next ==
    \/ \E d \in ClockSteps : Tick(d)
    \/ startup_event
    \/ cleanup_old_cache
    \/ \E p \in Procs, u \in Urls : WrapperLookup(p, u)
    \/ \E p \in Procs, info \in {"ok", "empty", "raise"} : WrapperResume(p, info)

Spec == Init /\ [][Next]_vars

\* ---- the janitor as a task of the event loop: from the dict as constructed, with
\* sweeps that may raise; the loop runs a task that is ready (a task started, or whose
\* sleep has run out), hence the weak fairness of the janitor's step
JanitorStep == cleanup_old_cache \/ cleanup_raises
LiveInit == Init /\ cache = <<>>
LiveNext == Next \/ cleanup_raises
LiveSpec == LiveInit /\ [][LiveNext]_vars /\ WF_vars(JanitorStep)
\* the same task with sweeps that do not raise, over a dict that starts empty or full
\* and one request task that stores and replaces entries
JanitorInit == Init /\ Len(cache) \in {0, MAX_CACHE_ITEMS}
JanitorNext ==
    \/ \E d \in ClockSteps : Tick(d)
    \/ startup_event
    \/ cleanup_old_cache
    \/ \E u \in Urls : WrapperLookup(1, u)
    \/ \E info \in {"ok", "empty", "raise"} : WrapperResume(1, info)
JanitorSpec == JanitorInit /\ [][JanitorNext]_vars /\ WF_vars(cleanup_old_cache)

\* ---- the sweep as a function of the dict and the clock: it is applied to dicts of
\* MAX_CACHE_ITEMS - 1 up to MAX_CACHE_ITEMS + MaxExtra entries, whose timestamps
\* ascend or descend in dict order or repeat, with one request task inserting
MaxExtra == 3
SweepSizes == (MAX_CACHE_ITEMS - 1)..(MAX_CACHE_ITEMS + MaxExtra)
SweepTimes == {MAX_CACHE_ITEMS + MaxExtra, JANITOR_MAX_AGE + 2, JANITOR_MAX_AGE + 3}
Stamp(pat, i, n) ==
    IF pat = "ascending" THEN i
    ELSE IF pat = "descending" THEN n + 1 - i
    ELSE 1 + (i % 3)
TestCache(n, pat) ==
    [i \in 1..n |-> <<cache_key(NumUrls + i), <<NumUrls + i, i>>, Stamp(pat, i, n)>>]

SweepInit ==
    /\ \E n \in SweepSizes, pat \in {"ascending", "descending", "repeating"},
          t \in SweepTimes :
        /\ cache = TestCache(n, pat)
        /\ nextVal = n + 1
        /\ now = t
        /\ nurls = 0
    /\ janPc = "running"
    /\ janWake = 0
    /\ ticks = 0
    /\ raised = FALSE
    /\ sweep = NoSweep
    /\ Idle

SweepNext ==
    \/ cleanup_old_cache
    \/ \E d \in ClockSteps : Tick(d)
    \/ \E u \in Urls : WrapperLookup(1, u)
    \/ \E info \in {"ok", "empty", "raise"} : WrapperResume(1, info)

SweepSpec == SweepInit /\ [][SweepNext]_vars

\* ---- download_video and its generator video_stream.  The handler returns the
\* StreamingResponse before the generator has run: the framework sends the status line
\* and the headers of the response (GZipMiddleware, line 33, holds them back until the
\* first body chunk when the client accepts gzip) and only then iterates the generator,
\* which opens the upstream connection on its first step.  An exception that leaves the
\* generator after the headers went out tears the connection down; before that, the
\* server answers 500.  When the client disconnects, the framework cancels the
\* iteration: a generator waiting in the upstream read is unwound at once, one
\* suspended at its yield is closed later by the event loop's generator finaliser.
MaxChunks == 3
Chunks(k) == [i \in 1..k |-> i]
UpstreamAnswers == {"200", "404"}

\* an exception leaves the response while it is being sent
ResponseFails ==
    /\ IF clStatus = 0 THEN clStatus' = 500 /\ aborted' = aborted
                       ELSE aborted' = TRUE /\ clStatus' = clStatus
    /\ dlPc' = "done"

\* lines 171-188 and 198-207: the extractor resolves the url, or raises
download_video(gz, k, ex) ==
    /\ dlPc = "idle"
    /\ gzip' = gz
    /\ source' = Chunks(k)
    /\ IF ex = "raise"
       THEN clStatus' = 400 /\ dlPc' = "done"
       ELSE clStatus' = (IF gz THEN 0 ELSE 200) /\ dlPc' = "open"
    /\ UNCHANGED <<upStatus, upOpen, pulled, held, sink, aborted, clientOpen, cacheVars>>

\* lines 192-193: the connection to upstream is opened; any answer is streamed
video_stream_open_Checks(answer) ==
    /\ dlPc = "open"
    /\ IF answer # "200"
       THEN ResponseFails /\ UNCHANGED <<upStatus, upOpen>>
       ELSE /\ upStatus' = answer
            /\ upOpen' = TRUE
            /\ dlPc' = "pull"
            /\ UNCHANGED <<clStatus, aborted>>
    /\ UNCHANGED <<gzip, source, pulled, held, sink, clientOpen, cacheVars>>
video_stream_open(answer) ==
    /\ dlPc = "open"
    /\ IF answer = "fail"
       THEN ResponseFails /\ UNCHANGED <<upStatus, upOpen>>
       ELSE /\ upStatus' = answer
            /\ upOpen' = TRUE
            /\ dlPc' = "pull"
            /\ UNCHANGED <<clStatus, aborted>>
    /\ UNCHANGED <<gzip, source, pulled, held, sink, clientOpen, cacheVars>>

\* line 194: the next chunk arrives from upstream
video_stream_pull_Skips ==
    /\ dlPc = "pull"
    /\ pulled < Len(source)
    /\ pulled' = IF pulled + 2 <= Len(source) THEN pulled + 2 ELSE pulled + 1
    /\ held' = source[pulled']
    /\ dlPc' = "yield"
    /\ UNCHANGED <<gzip, source, upStatus, upOpen, sink, clStatus, aborted, clientOpen,
                   cacheVars>>
video_stream_pull ==
    /\ dlPc = "pull"
    /\ pulled < Len(source)
    /\ pulled' = pulled + 1
    /\ held' = source[pulled + 1]
    /\ dlPc' = "yield"
    /\ UNCHANGED <<gzip, source, upStatus, upOpen, sink, clStatus, aborted, clientOpen,
                   cacheVars>>

\* line 195: the chunk is handed to the response, which sends it (with the headers, if
\* they were held back)
video_stream_yield ==
    /\ dlPc = "yield"
    /\ sink' = Append(sink, held)
    /\ held' = 0
    /\ clStatus' = 200
    /\ dlPc' = "pull"
    /\ UNCHANGED <<gzip, source, upStatus, upOpen, pulled, aborted, clientOpen, cacheVars>>

\* lines 192-194: upstream is exhausted, the two async with blocks exit and the
\* response is completed
video_stream_end ==
    /\ dlPc = "pull"
    /\ pulled = Len(source)
    /\ upOpen' = FALSE
    /\ clStatus' = 200
    /\ dlPc' = "done"
    /\ UNCHANGED <<gzip, source, upStatus, pulled, held, sink, aborted, clientOpen,
                   cacheVars>>

\* line 194: the read from upstream raises; the async with blocks exit
upstream_fails ==
    /\ dlPc = "pull"
    /\ upOpen' = FALSE
    /\ ResponseFails
    /\ UNCHANGED <<gzip, source, upStatus, pulled, held, sink, clientOpen, cacheVars>>

\* the client goes away while the response is being sent
client_disconnects_KeepsPulling ==
    /\ dlPc \in {"open", "pull", "yield"}
    /\ clientOpen
    /\ clientOpen' = FALSE
    /\ UNCHANGED <<dlPc, upOpen, held, gzip, source, upStatus, pulled, sink, clStatus,
                   aborted, cacheVars>>
client_disconnects ==
    /\ dlPc \in {"open", "pull", "yield"}
    /\ clientOpen
    /\ clientOpen' = FALSE
    /\ IF dlPc = "yield"
       THEN dlPc' = "cancelled" /\ UNCHANGED <<upOpen, held>>
       ELSE dlPc' = "done" /\ upOpen' = FALSE /\ held' = 0
    /\ UNCHANGED <<gzip, source, upStatus, pulled, sink, clStatus, aborted, cacheVars>>

\* lines 192-195: the suspended generator is closed: the async with blocks exit
video_stream_aclose ==
    /\ dlPc = "cancelled"
    /\ upOpen' = FALSE
    /\ held' = 0
    /\ dlPc' = "done"
    /\ UNCHANGED <<gzip, source, upStatus, pulled, sink, clStatus, aborted, clientOpen,
                   cacheVars>>

RelayInit == Init /\ cache = <<>>
RelayNext ==
    \/ \E gz \in BOOLEAN, k \in 0..MaxChunks, ex \in {"ok", "raise"} :
          download_video(gz, k, ex)
    \/ \E answer \in UpstreamAnswers \cup {"fail"} : video_stream_open(answer)
    \/ video_stream_pull
    \/ video_stream_yield
    \/ video_stream_end
    \/ upstream_fails
    \/ client_disconnects
    \/ video_stream_aclose
RelaySpec == RelayInit /\ [][RelayNext]_vars
\* the event loop runs the finaliser of a generator that was dropped
RelayLiveSpec == RelaySpec /\ WF_vars(video_stream_aclose)

\* ---- the answer of get_video_info as a function of what the extractor gives.  The
\* metadata is a dict that may or may not have the keys 'url' and 'duration', and
\* whose duration may be None; get_info is called twice, by get_video_info (line 155)
\* and by is_duration_valid (line 113), and each call may raise or give nothing
MAX_DURATION == 120
MaxOver == 2
Durations == {0, 1} \cup ((MAX_DURATION - 1)..(MAX_DURATION + MaxOver))
Metas ==
    [url : BOOLEAN, dur : {"number"}, seconds : Durations]
    \cup [url : BOOLEAN, dur : {"missing", "None"}, seconds : {0}]

\* humanize.precisedelta of a number of seconds below an hour; str(None) for None
precisedelta(meta) ==
    IF meta.dur = "None" THEN [minutes |-> -1, seconds |-> -1]
    ELSE LET d == IF meta.dur = "missing" THEN 0 ELSE meta.seconds
         IN  [minutes |-> d \div 60, seconds |-> d % 60]

\* lines 111-116: info.get("duration", 0) <= max_duration; None <= 120 raises, as does
\* the extractor, and every exception gives False
is_duration_valid_Strict(meta, second) ==
    IF second # "ok" \/ meta.dur # "number" \/ ~meta.url THEN FALSE
    ELSE meta.seconds <= MAX_DURATION
is_duration_valid(meta, second) ==
    IF second # "ok" \/ meta.dur = "None" THEN FALSE
    ELSE (IF meta.dur = "missing" THEN 0 ELSE meta.seconds) <= MAX_DURATION

\* lines 152-168
video_info_response(meta, first, second) ==
    IF first = "raise" THEN HTTPException(500)
    ELSE IF first = "empty" THEN HTTPException(500)
    ELSE [kind |-> "computed", status |-> 200,
          val |-> [title |-> "title", duration |-> precisedelta(meta),
                   thumbnail |-> "thumbnail", format |-> "format",
                   valid |-> is_duration_valid(meta, second)]]

video_info(meta, first, second) ==
    /\ vinfo' = [meta |-> meta, first |-> first, second |-> second,
                 resp |-> video_info_response(meta, first, second)]
    /\ UNCHANGED <<cache, now, ticks, janVars, procVars, nextVal, dlPc, gzip, source,
                   upStatus, upOpen, pulled, held, sink, clStatus, aborted, clientOpen>>

InfoInit == Init /\ cache = <<>>
InfoNext ==
    \E meta \in Metas, first \in {"ok", "raise", "empty"}, second \in {"ok", "raise", "empty"} :
        video_info(meta, first, second)
InfoSpec == InfoInit /\ [][InfoNext]_vars

\* ---- the claims
key(p) == cache_key(args[p])
Stale(p) == found[p].age >= EXPIRE_TIME
Fresh(p) == found[p].age >= 0 /\ found[p].age < EXPIRE_TIME
Failed(p) == pc[p] = "done" /\ ret[p].kind = "error"
Computed(p) == pc[p] = "done" /\ ret[p].kind = "computed"
\* the step in which the call of p returns the response func computed
Completes(p) == pc[p] = "computing" /\ pc'[p] = "done" /\ ret'[p].kind = "computed"
HoldsFresh(p) == Has(cache', key(p)) /\ Get(cache', key(p)) = <<ret'[p].val, now>>
\* a sweep: the step of the janitor, the only one that sets janWake
Sweeps == janWake' # janWake /\ cleanup_old_cache
StaleGone(p) ==
    \A i \in 1..Len(cache') :
        ~(cache'[i][1] = key(p) /\ <<cache'[i][2], cache'[i][3]>> = found[p].entry)

(* C1: in every reachable state, after any wrapper step and any janitor sweep, the
   cache holds at most MAX_CACHE_ITEMS (100) entries. *)
C1_CacheBounded == Len(cache) <= MAX_CACHE_ITEMS
C1_Witness ==
    /\ Len(cache) = MAX_CACHE_ITEMS
    /\ \E p, q \in Procs : Computed(p) /\ stored[p] /\ Computed(q) /\ ~stored[q]

(* C2: a call whose lookup finds an entry of age >= ttl invokes func and does not
   return the stored value; a value returned from the cache was younger than ttl. *)
C2_StaleNeverReturned ==
    \A p \in Procs :
        pc[p] # "idle" =>
            /\ Stale(p) => /\ invoked[p] = 1
                           /\ ret[p].kind # "hit"
                           /\ ret[p].val # found[p].entry[1]
            /\ ret[p].kind = "hit" => Fresh(p)
C2_Witness == \E p \in Procs : Computed(p) /\ Stale(p)

(* C3: a call whose lookup finds an entry of age < ttl returns exactly the stored
   value at once, does not invoke func, and changes nothing in the cache. *)
C3_FreshHit ==
    \A p \in Procs :
        (pc[p] # "idle" /\ Fresh(p)) =>
            /\ pc[p] = "done"
            /\ ret[p].kind = "hit"
            /\ ret[p].val = found[p].entry[1]
            /\ invoked[p] = 0
            /\ effect[p] = {}
C3_Witness == \E p \in Procs : pc[p] = "done" /\ ret[p].kind = "hit" /\ Fresh(p)

(* C4, as claimed: a call that misses and whose func fails has changed nothing in
   the cache. *)
C4_Original == \A p \in Procs : Failed(p) => effect[p] = {}
(* C4, amended: a call that misses and whose func fails raises the failure to its
   caller and has added or changed no entry; it has removed the expired entry of its
   own key if its lookup found one, and nothing else. *)
C4_FailureOnlyDropsStale ==
    \A p \in Procs :
        Failed(p) =>
            /\ ret[p] = HTTPException(500)
            /\ ~stored[p]
            /\ effect[p] = IF Stale(p) THEN {<<"removed", key(p)>>} ELSE {}
C4_Witness == \E p \in Procs : Failed(p) /\ Stale(p) /\ effect[p] = {<<"removed", key(p)>>}

(* C5: every entry of the cache holds a response that a completed func call produced
   for the url of its key, and a call whose func raised has stored nothing. *)
IsResponseFor(k, v) == Len(v) = 2 /\ k = cache_key(v[1]) /\ v[2] \in 1..(nextVal - 1)
C5_OnlyResponsesCached ==
    /\ \A i \in 1..Len(cache) : IsResponseFor(cache[i][1], cache[i][2])
    /\ \A p \in Procs :
        Failed(p) => /\ ~stored[p]
                     /\ <<"added", key(p)>> \notin effect[p]
                     /\ <<"changed", key(p)>> \notin effect[p]
C5_Witness ==
    \E p \in Procs : Failed(p) /\ ~Has(cache, key(p)) /\ Len(cache) < MAX_CACHE_ITEMS

(* C6, as claimed: when a task whose call computed a response starts its next call
   for the same key less than ttl later, that call invokes no func and returns the
   same value. *)
C6_Original ==
    [][\A p \in Procs, u \in Urls :
        (/\ Computed(p) /\ args[p] = u
         /\ now - doneAt[p] < EXPIRE_TIME
         /\ WrapperLookup(p, u))
        => (invoked'[p] = 0 /\ ret'[p].val = ret[p].val)]_vars
(* C6, amended: when the first call computed a response and stored it (the cache held
   fewer than 100 entries), a next call of the task for the same key less than ttl
   after the store invokes no func and returns the value the cache holds for the key:
   the first call's value, or a newer one that a concurrent call stored since. *)
C6_StoredThenHit ==
    [][\A p \in Procs, u \in Urls :
        (/\ Computed(p) /\ args[p] = u /\ stored[p]
         /\ now - doneAt[p] < EXPIRE_TIME
         /\ WrapperLookup(p, u))
        => /\ invoked'[p] = 0
           /\ pc'[p] = "done"
           /\ ret'[p].kind = "hit"
           /\ \/ ret'[p].val = ret[p].val
              \/ ret'[p].val[1] = u /\ ret'[p].val[2] > ret[p].val[2]]_vars
C6_Witness ==
    \E p \in Procs :
        /\ pc[p] = "done" /\ ret[p].kind = "hit" /\ Fresh(p)
        /\ ret[p].val[2] > MAX_CACHE_ITEMS
        /\ ncalls = 2 /\ \A q \in Procs : q # p => pc[q] = "idle"

(* C7, as claimed: when a call found an expired entry and func then succeeds, on
   return the stale entry is gone and the cache holds the fresh value under the key,
   stamped with the time of the store. *)
C7_Original ==
    [][\A p \in Procs : (Completes(p) /\ Stale(p)) => (StaleGone(p) /\ HoldsFresh(p))]_vars
(* C7, amended: ... on return the stale entry is gone, and the cache holds the fresh
   value under the key, stamped with the time of the store, exactly when it held
   fewer than 100 entries at that time; otherwise the response is not stored. *)
C7_StaleReplacedIfRoom ==
    [][\A p \in Procs :
        (Completes(p) /\ Stale(p)) =>
            /\ StaleGone(p)
            /\ HoldsFresh(p) <=> Len(cache) < MAX_CACHE_ITEMS
            /\ Len(cache) >= MAX_CACHE_ITEMS => cache' = cache]_vars
C7_Witness ==
    \E p \in Procs :
        /\ Computed(p) /\ Stale(p) /\ stored[p]
        /\ Has(cache, key(p)) /\ Get(cache, key(p)) = <<ret[p].val, doneAt[p]>>

(* C8: when func succeeds after a miss, the response is stored under the key if and
   only if the cache holds fewer than 100 entries at that moment; at capacity the call
   returns the response and leaves the cache as it is; no other key is touched. *)
C8_StoreIffRoom ==
    [][\A p \in Procs :
        Completes(p) =>
            /\ ret'[p].val[1] = args[p]
            /\ IF Len(cache) < MAX_CACHE_ITEMS
               THEN /\ HoldsFresh(p)
                    /\ DelAll(cache', {key(p)}) = DelAll(cache, {key(p)})
               ELSE cache' = cache]_vars
C8_Witness ==
    \E p \in Procs :
        /\ Computed(p) /\ ~stored[p] /\ ~Has(cache, key(p))
        /\ Len(cache) = MAX_CACHE_ITEMS

(* C9, as claimed: after a sweep no entry of age >= 300 seconds remains. *)
C9_Original ==
    [][Sweeps =>
        \A i \in 1..Len(cache') : now - cache'[i][3] < JANITOR_MAX_AGE]_vars
(* C9, amended: after a sweep no entry of age > 300 seconds remains (an entry of age
   exactly 300 seconds stays). *)
C9_SweepRemovesOlder ==
    [][Sweeps =>
        \A i \in 1..Len(cache') : now - cache'[i][3] <= JANITOR_MAX_AGE]_vars
C9_Witness ==
    /\ janPc = "sleeping" /\ janWake = now + JANITOR_SLEEP
    /\ sweep.expired > 0
    /\ \E i \in 1..Len(cache) : now - cache[i][3] = JANITOR_MAX_AGE

(* C10, as claimed: a call that misses on a cache of 100 entries inserts its response,
   and the sweep that follows, with no entry expired, keeps it and brings the count
   back to 100. *)
C10_Original ==
    [][\A p \in Procs :
        (/\ Computed(p) /\ found[p] = NoEntry
         /\ now - doneAt[p] <= JANITOR_MAX_AGE
         /\ Sweeps
         /\ expired_keys(cache, now) = {})
        => (Has(cache', key(p)) /\ Len(cache') <= MAX_CACHE_ITEMS)]_vars
(* C10, amended: a sweep of a dict that holds more than 100 entries after the expired
   ones are removed deletes exactly the excess, oldest created_at first: every entry
   that stays is no older than every entry trimmed, and 100 entries stay. *)
C10_TrimOldestFirst ==
    [][Sweeps =>
        LET live == {it \in Range(cache) : now - it[3] <= JANITOR_MAX_AGE}
            trimmed == live \ Range(cache')
        IN  /\ Range(cache') \subseteq live
            /\ Cardinality(trimmed) = IF Cardinality(live) > MAX_CACHE_ITEMS
                                      THEN Cardinality(live) - MAX_CACHE_ITEMS ELSE 0
            /\ \A r \in trimmed : \A k \in Range(cache') : r[3] <= k[3]]_vars
C10_Witness == sweep.trimmed >= 2 /\ Len(cache) = MAX_CACHE_ITEMS

(* C11: once started, the janitor never leaves its loop: a sweep that raises is
   absorbed (the task goes on to its sleep and no request sees the exception), and
   whenever the task is ready to sweep, at startup or when its 300-second sleep has
   run out, a sweep follows (under weak fairness of the janitor task). *)
SweepDue == janPc = "running" \/ (janPc # "unstarted" /\ now >= janWake)
C11_JanitorKeepsSweeping ==
    /\ [](janPc \in {"unstarted", "running", "sleeping"})
    /\ [][(raised' /\ janWake' # janWake) => UNCHANGED <<cache, procVars>>]_vars
    /\ SweepDue ~> (janPc = "sleeping" /\ janWake > now)
C11_Witness == raised /\ janPc = "sleeping" /\ now >= janWake

(* C12: there is no single-flight. When two calls for the same key are both past
   their lookup and suspended in func, both have invoked func; the call that resumes
   first leaves the other one computing, and a call that resumes when another call has
   stored under its key meanwhile still ends with the outcome of its own func call: a
   response object of its own when func succeeds (func ran twice for the key), its own
   failure otherwise. *)
C12_NoSingleFlight ==
    [][\A p \in Procs :
        (pc[p] = "computing" /\ pc'[p] = "done") =>
            /\ invoked[p] = 1
            /\ ret'[p].kind \in {"computed", "error"}
            /\ ret'[p].kind = "computed" =>
                  /\ ret'[p].val = <<args[p], nextVal>>
                  /\ \A q \in Procs \ {p} : ret[q].val # ret'[p].val
                  /\ \A i \in 1..Len(cache) : cache[i][2] # ret'[p].val
            /\ \A q \in Procs \ {p} :
                  (pc[q] = "computing" /\ args[q] = args[p]) =>
                      (invoked[q] = 1 /\ pc'[q] = "computing")]_vars
C12_Witness ==
    \E p, q \in Procs :
        /\ p # q /\ args[p] = args[q]
        /\ Computed(p) /\ Computed(q)
        /\ found[p] = NoEntry /\ found[q] = NoEntry
        /\ invoked[p] = 1 /\ invoked[q] = 1
        /\ stored[p] /\ doneAt[p] = doneAt[q] /\ ticks = 0 /\ sweep = NoSweep
        /\ ret[p].val # ret[q].val

(* C13, as claimed: a key has at most one entry, and a call that completes a successful
   func call for a key that has an entry (stored meanwhile by a concurrent call)
   replaces that entry by its own value and a new created_at. *)
UniqueKeys == Cardinality(Keys(cache)) = Len(cache)
C13_Original ==
    /\ []UniqueKeys
    /\ [][\A p \in Procs :
            (Completes(p) /\ Has(cache, key(p))) => HoldsFresh(p)]_vars
(* C13, amended: a key has at most one entry; a call that completes a successful func
   call for a key that has an entry replaces it by its own value and a new created_at
   (the number of entries stays the same) if the cache holds fewer than 100 entries at
   that moment; at 100 entries the existing entry stays as it is and the new value is
   returned without being stored. *)
C13_ReplacedIfRoom ==
    /\ []UniqueKeys
    /\ [][\A p \in Procs :
            (Completes(p) /\ Has(cache, key(p))) =>
                IF Len(cache) < MAX_CACHE_ITEMS
                THEN /\ HoldsFresh(p)
                     /\ Len(cache') = Len(cache)
                     /\ Get(cache', key(p)) # Get(cache, key(p))
                ELSE cache' = cache /\ Get(cache, key(p))[1] # ret'[p].val]_vars
C13_Witness ==
    \E p, q \in Procs :
        /\ p # q /\ args[p] = args[q]
        /\ Computed(p) /\ Computed(q) /\ stored[p] /\ stored[q]
        /\ <<"changed", key(q)>> \in effect[q]
        /\ Get(cache, key(q)) = <<ret[q].val, doneAt[q]>>
        /\ ret[p].val # ret[q].val

(* C14: when the opening of the upstream connection fails, or upstream answers with a
   non-success status, before any chunk was forwarded, the client receives an error
   response (HTTP 400) and neither success headers nor body bytes. *)
C14_UpstreamErrorIs400 ==
    [][\A answer \in {"fail", "404"} :
        video_stream_open(answer) =>
            (clStatus' = 400 /\ dlPc' = "done" /\ sink' = <<>> /\ ~aborted')]_vars

(* C15: the chunks handed to the downstream sink are at every moment the first chunks
   of the upstream source, in order, each once and none skipped; when the relay ends
   with no failure and the client still connected, the sink has received all of
   C1..Ck, the stream is terminated and the upstream connection released. *)
Others(c, k) == SelectSeq(c, LAMBDA it : it[1] # k)
SomeExpired == \E i \in 1..Len(cache) : now - cache[i][3] > JANITOR_MAX_AGE
NoFailure == dlPc = "done" /\ upStatus # "none" /\ ~aborted /\ clientOpen /\ clStatus = 200
C15_ChunksInOrder ==
    /\ Len(sink) <= Len(source)
    /\ \A i \in 1..Len(sink) : sink[i] = source[i]
    /\ NoFailure => (sink = source /\ ~upOpen)
C15_Witness == NoFailure /\ sink = source /\ Len(source) >= 2

(* C16: once the downstream sink has closed (the framework has seen the disconnect), no
   further chunk is read from upstream and none is handed on, and the upstream
   connection is eventually released (the generator is unwound at once when it waits in
   the read, and closed by the event loop's finaliser when it is suspended at its
   yield). *)
C16_DisconnectStopsRelay ==
    /\ [][~clientOpen => (pulled' = pulled /\ sink' = sink /\ ~upOpen')]_vars
    /\ [][(clientOpen /\ ~clientOpen') =>
            (pulled' = pulled /\ sink' = sink /\ dlPc' \in {"cancelled", "done"})]_vars
    /\ ~clientOpen ~> (dlPc = "done" /\ ~upOpen)
C16_Witness ==
    /\ ~clientOpen /\ dlPc = "done" /\ ~upOpen /\ upStatus # "none"
    /\ Len(sink) >= 1 /\ pulled = Len(sink) + 1 /\ pulled < Len(source)

(* C17: a successful /video-info response reports valid = true only if the metadata
   has a usable direct media url and a duration, and the duration is at most 120
   seconds; a resource of more than 120 seconds gets valid = false together with its
   title, duration, thumbnail and format. *)
C17_ValidOnlyIfComplete ==
    vinfo.first = "ok" =>
        /\ vinfo.resp.kind = "computed"
        /\ vinfo.resp.val.valid =>
              /\ vinfo.meta.url
              /\ vinfo.meta.dur = "number"
              /\ vinfo.meta.seconds <= MAX_DURATION
        /\ (vinfo.meta.dur = "number" /\ vinfo.meta.seconds > MAX_DURATION) =>
              /\ ~vinfo.resp.val.valid
              /\ DOMAIN vinfo.resp.val = {"title", "duration", "thumbnail", "format", "valid"}

(* C18: every entry is eventually removed or replaced: once the clock has passed an
   entry's maximum age, a later sweep of the janitor leaves the cache without it (an
   entry only grows older, so a cache without expired entries has lost or replaced
   every entry that was expired before), and every sweep leaves no expired entry; in
   particular a cache full of expired entries does not stay full. *)
C18_EntriesEventuallyGone ==
    /\ SomeExpired ~> ~SomeExpired
    /\ [][Sweeps => ~SomeExpired']_vars
    /\ (Len(cache) = MAX_CACHE_ITEMS /\ SomeExpired) ~> (Len(cache) < MAX_CACHE_ITEMS)
C18_Witness ==
    /\ sweep.expired = MAX_CACHE_ITEMS
    /\ ticks > 0
    /\ ~SomeExpired

(* C19: a sweep never removes an entry that a lookup would still serve as a hit:
   every entry a sweep deletes is older than 300 seconds, because the dict never
   holds more than MAX_CACHE_ITEMS entries, so that the trim of lines 52-58 is never
   taken. *)
C19_SweepRemovesOnlyExpired ==
    /\ [](~NeedsTrim(cache) /\ ~NeedsTrim(AfterExpiry(cache, now)) /\ sweep.trimmed = 0)
    /\ [][Sweeps =>
            \A it \in Range(cache) \ Range(cache') :
                now - it[3] > EXPIRE_TIME /\ ~IsFresh(now - it[3])]_vars
C19_Witness ==
    /\ janPc = "sleeping" /\ janWake = now + JANITOR_SLEEP
    /\ sweep.expired = MAX_CACHE_ITEMS - 1
    /\ sweep.trimmed = 0
    /\ Len(cache) >= 1
    /\ \A i \in 1..Len(cache) : ~IsFresh(now - cache[i][3])

(* C20: a wrapper call for key k changes the cache at most at key k: neither its
   lookup (with the delete of a stale entry) nor its resumption (with the conditional
   store) adds, removes or alters the entry of another key, whatever the size of the
   cache and whether the computation succeeds or fails; what the call changed, over
   both of its steps, is at its own key. *)
C20_OnlyOwnKey ==
    /\ [][\A p \in Procs :
            /\ (ncalls' # ncalls /\ \E u \in Urls : WrapperLookup(p, u))
                    => Others(cache', cache_key(args'[p])) = Others(cache, cache_key(args'[p]))
            /\ (pc[p] = "computing" /\ pc'[p] = "done")
                    => Others(cache', key(p)) = Others(cache, key(p))]_vars
    /\ [](\A p \in Procs : \A ch \in effect[p] : ch[2] = key(p))
C20_Witness ==
    \E p \in Procs :
        /\ pc[p] = "done" /\ ret[p].kind = "computed"
        /\ found[p] # NoEntry
        /\ stored[p]
        /\ effect[p] # {}
        /\ Len(cache) = MAX_CACHE_ITEMS
        /\ sweep = NoSweep

====
